---- MODULE Spec2Model ----
(***************************************************************************)
(* Model of the GA4 realtime pipeline: the report client and its response  *)
(* normalisation (scripts/ga4_client.py) and the task graph that drives    *)
(* the extraction, view rebuild, cleanup, status and summary tasks         *)
(* (dags/ga4_realtime_dag.py).                                             *)
(*                                                                         *)
(* Strings that the code inspects character by character (API field names, *)
(* metric values handed to float()) are sequences of one-character         *)
(* strings; strings the code only tests for emptiness or copies are TLA+   *)
(* strings.                                                                *)
(***************************************************************************)
EXTENDS Integers, Sequences, FiniteSets, TLC

VARIABLES
    \* ---- task graph of one pipeline run (ga4_realtime_dag.py) ----
    state,      \* task id -> state of its task instance
    \* ---- one report client (ga4_client.py) ----
    now,        \* the wall clock read by pd.Timestamp.now()
    op,         \* the query operation being executed / executed last
    cand,       \* traffic sources: index of the next candidate to try (0 = no loop running)
    calls,      \* dimension lists of the requests issued by the operation so far
    kinds,      \* what each of those requests came back with
    lastOut,    \* outcome of the request the operation returned on
    ret,        \* what the operation handed to its caller
    lastRun,    \* the task callable the worker executed: its task, what it did
                \* (returned / raised) and the errors it met while it ran
    \* ---- the relational store (postgres_handler.py) ----
    db,         \* tables, indexes and views that exist, and the rows of each table
    sres,       \* the handler method or callable executed on the store: what it was
                \* given, the store it found and what it handed back
    \* ---- the database work of the task instances of the run ----
    inDb,       \* per task: the handler method its callable is executing ("no": none)
    viewsFailed, \* a statement of the view rebuild was rejected in this run
    \* ---- the functions without side effects, applied on their own ----
    given,      \* the function applied and the argument it was given
    got         \* the values it returned, one per application

vars == <<state, now, op, cand, calls, kinds, lastOut, ret, lastRun, db, sres, inDb,
          viewsFailed, given, got>>
storeVars == <<db, sres>>
runVars == <<inDb, viewsFailed>>
funVars == <<given, got>>
dagVars == <<state>>
clientVars == <<now, op, cand, calls, kinds, lastOut, ret, lastRun>>

\* ------------------------------------------------------------------------
\* Bounds
\* ------------------------------------------------------------------------
MaxRows == 2        \* rows in one API response
MaxHoles == 1       \* values of one API response that are missing or malformed
MaxClock == 1       \* the clock stops advancing here
MaxNameLen == 3     \* characters of a field name given to to_snake
MaxViewRows == 2    \* rows in the tables the hourly_metrics view reads, all together

\* ------------------------------------------------------------------------
\* Characters and API / column names
\* ------------------------------------------------------------------------
UpperChars == <<"A","B","C","D","E","F","G","H","I","J","K","L","M",
                "N","O","P","Q","R","S","T","U","V","W","X","Y","Z">>
LowerChars == <<"a","b","c","d","e","f","g","h","i","j","k","l","m",
                "n","o","p","q","r","s","t","u","v","w","x","y","z">>
DigitChars == <<"0","1","2","3","4","5","6","7","8","9">>

Range(s) == {s[i] : i \in DOMAIN s}
UpperSet == Range(UpperChars)
LowerSet == Range(LowerChars)
DigitSet == Range(DigitChars)
IsUpper(c) == c \in UpperSet
IsLower(c) == c \in LowerSet
IsDigit(c) == c \in DigitSet
ToLower(c) == IF IsUpper(c)
              THEN LowerChars[CHOOSE i \in DOMAIN UpperChars : UpperChars[i] = c]
              ELSE c
DigitVal(c) == (CHOOSE i \in DOMAIN DigitChars : DigitChars[i] = c) - 1

unifiedScreenName == <<"u","n","i","f","i","e","d","S","c","r","e","e","n","N","a","m","e">>
country == <<"c","o","u","n","t","r","y">>
activeUsers == <<"a","c","t","i","v","e","U","s","e","r","s">>
screenPageViews == <<"s","c","r","e","e","n","P","a","g","e","V","i","e","w","s">>
eventName == <<"e","v","e","n","t","N","a","m","e">>
eventCount == <<"e","v","e","n","t","C","o","u","n","t">>
keyEvents == <<"k","e","y","E","v","e","n","t","s">>
sessionSource == <<"s","e","s","s","i","o","n","S","o","u","r","c","e">>
sessionMedium == <<"s","e","s","s","i","o","n","M","e","d","i","u","m">>
sessionCampaign == <<"s","e","s","s","i","o","n","C","a","m","p","a","i","g","n">>
deviceCategory == <<"d","e","v","i","c","e","C","a","t","e","g","o","r","y">>
source == <<"s","o","u","r","c","e">>
medium == <<"m","e","d","i","u","m">>
campaign == <<"c","a","m","p","a","i","g","n">>
active_users == <<"a","c","t","i","v","e","_","u","s","e","r","s">>
report_type == <<"r","e","p","o","r","t","_","t","y","p","e">>
extracted_at == <<"e","x","t","r","a","c","t","e","d","_","a","t">>
session_source == <<"s","e","s","s","i","o","n","_","s","o","u","r","c","e">>
session_medium == <<"s","e","s","s","i","o","n","_","m","e","d","i","u","m">>
session_campaign == <<"s","e","s","s","i","o","n","_","c","a","m","p","a","i","g","n">>
device_category == <<"d","e","v","i","c","e","_","c","a","t","e","g","o","r","y">>
unified_screen_name == <<"u","n","i","f","i","e","d","_","s","c","r","e","e","n","_","n","a","m","e">>
event_name == <<"e","v","e","n","t","_","n","a","m","e">>
event_count == <<"e","v","e","n","t","_","c","o","u","n","t">>
key_events == <<"k","e","y","_","e","v","e","n","t","s">>
screen_page_views == <<"s","c","r","e","e","n","_","p","a","g","e","_","v","i","e","w","s">>
NotSet == "(not set)"

\* ------------------------------------------------------------------------
\* to_snake
\* ------------------------------------------------------------------------
\* last index of the run of lower-case letters that starts at p
RECURSIVE LowerRunEnd(_, _)
LowerRunEnd(s, p) ==
    IF p + 1 <= Len(s) /\ IsLower(s[p + 1]) THEN LowerRunEnd(s, p + 1) ELSE p

\* re.sub(r'(.)([A-Z][a-z]+)', r'\1_\2', s), scanning from position p
RECURSIVE SubCapWord(_, _)
SubCapWord(s, p) ==
    IF p > Len(s) THEN <<>>
    ELSE IF p + 2 <= Len(s) /\ IsUpper(s[p + 1]) /\ IsLower(s[p + 2])
         THEN LET e == LowerRunEnd(s, p + 2)
              IN  <<s[p], "_">> \o SubSeq(s, p + 1, e) \o SubCapWord(s, e + 1)
         ELSE <<s[p]>> \o SubCapWord(s, p + 1)

\* re.sub(r'([a-z0-9])([A-Z])', r'\1_\2', s), scanning from position p
RECURSIVE SubLowerUpper(_, _)
SubLowerUpper(s, p) ==
    IF p > Len(s) THEN <<>>
    ELSE IF p + 1 <= Len(s) /\ (IsLower(s[p]) \/ IsDigit(s[p])) /\ IsUpper(s[p + 1])
         THEN <<s[p], "_", s[p + 1]>> \o SubLowerUpper(s, p + 2)
         ELSE <<s[p]>> \o SubLowerUpper(s, p + 1)

\* variant: the result is not lowercased
to_snake_keep_case(name) ==
    LET s1 == SubCapWord(name, 1)
        s2 == SubLowerUpper(s1, 1)
    IN  [i \in DOMAIN s2 |-> IF s2[i] = "." THEN "_" ELSE s2[i]]

\* re.sub, re.sub, .replace('.', '_'), .lower()
to_snake(name) ==
    LET s1 == SubCapWord(name, 1)
        s2 == SubLowerUpper(s1, 1)
    IN  [i \in DOMAIN s2 |-> IF s2[i] = "." THEN "_" ELSE ToLower(s2[i])]

\* ------------------------------------------------------------------------
\* API responses (the RunRealtimeReportResponse shape the client reads)
\* ------------------------------------------------------------------------
DimStrings == {"", "desktop"}                \* "" is a missing dimension value
MetricStrings == {<<>>, <<"1","2">>, <<"x">>}   \* missing, a number, not a number

Holes(row) ==
    Cardinality({i \in DOMAIN row.dimension_values : row.dimension_values[i] = ""}) +
    Cardinality({i \in DOMAIN row.metric_values : row.metric_values[i] # <<"1","2">>})

Rows(nd, nm, h) ==
    {row \in [dimension_values : [1..nd -> DimStrings],
              metric_values : [1..nm -> MetricStrings]] : Holes(row) <= h}

\* the sequences of n rows with at most h missing or malformed values between them
RECURSIVE RowSeqsOfLen(_, _, _, _)
RowSeqsOfLen(nd, nm, n, h) ==
    IF n = 0 THEN {<<>>}
    ELSE UNION {{<<row>> \o rs : rs \in RowSeqsOfLen(nd, nm, n - 1, h - Holes(row))} :
                   row \in Rows(nd, nm, h)}

RowSeqs(nd, nm, maxRows) == UNION {RowSeqsOfLen(nd, nm, n, MaxHoles) : n \in 0..maxRows}

\* the API answers a request with the headers that were requested
Responses(dims, metrics, maxRows) ==
    {[dimension_headers |-> dims, metric_headers |-> metrics, rows |-> rs] :
        rs \in RowSeqs(Len(dims), Len(metrics), maxRows)}

NoResponse == [dimension_headers |-> <<>>, metric_headers |-> <<>>, rows |-> <<>>]

\* outcome of self.client.run_realtime_report(request): an exception or a response
Outcomes(dims, metrics, maxRows) ==
    {[failed |-> TRUE, response |-> NoResponse]} \cup
    {[failed |-> FALSE, response |-> r] : r \in Responses(dims, metrics, maxRows)}

\* clock readings of n successive pd.Timestamp.now() calls, first one at or after t
Readings(t, n) ==
    {ts \in [1..n -> t..MaxClock] : \A i \in 1..(n - 1) : ts[i] <= ts[i + 1]}

ClockAfter(t, ts) == IF Len(ts) = 0 THEN t ELSE ts[Len(ts)]

\* ------------------------------------------------------------------------
\* GA4RealtimeClient._parse_response_to_df
\* ------------------------------------------------------------------------
\* float(v) succeeds on a non-empty string of digits (the alphabet of MetricStrings)
IsNumber(v) == Len(v) > 0 /\ \A i \in DOMAIN v : IsDigit(v[i])

RECURSIVE Float(_)
Float(v) == IF Len(v) = 0 THEN 0
            ELSE 10 * Float(SubSeq(v, 1, Len(v) - 1)) + DigitVal(v[Len(v)])

\* d[keys[i]] = vals[i] for i = 1..Len(vals), a later assignment overwriting an earlier one
DictOf(keys, vals) ==
    [k \in {keys[i] : i \in DOMAIN vals} |->
        vals[CHOOSE i \in DOMAIN vals :
                keys[i] = k /\ \A j \in DOMAIN vals : keys[j] = k => j <= i]]

\* one iteration of "for row in response.rows"; t is what pd.Timestamp.now() returns
ParseRow(row, dim_headers, metric_headers, reportType, t) ==
    LET dv == row.dimension_values
        mv == row.metric_values
        raises == \/ Len(dv) > Len(dim_headers)                       \* IndexError
                  \/ Len(mv) > Len(metric_headers)                    \* IndexError
                  \/ \E i \in DOMAIN mv : mv[i] # <<>> /\ ~IsNumber(mv[i])  \* ValueError
        dims == DictOf(dim_headers, [i \in DOMAIN dv |-> IF dv[i] # "" THEN dv[i] ELSE NotSet])
        mets == DictOf(metric_headers, [i \in DOMAIN mv |-> IF mv[i] # <<>> THEN Float(mv[i]) ELSE 0])
        tail == (report_type :> reportType) @@ (extracted_at :> t)
    IN  [raised |-> raises,
         d |-> IF raises THEN <<>> ELSE tail @@ mets @@ dims]

\* ts[i] is the clock reading taken while row i is processed
parse_response_to_df(response, reportType, ts) ==
    IF Len(response.rows) = 0 THEN <<>>
    ELSE LET dim_headers == [i \in DOMAIN response.dimension_headers |->
                                to_snake(response.dimension_headers[i])]
             metric_headers == [i \in DOMAIN response.metric_headers |->
                                to_snake(response.metric_headers[i])]
             rows == [i \in DOMAIN response.rows |->
                        ParseRow(response.rows[i], dim_headers, metric_headers, reportType, ts[i])]
         IN  IF \E i \in DOMAIN rows : rows[i].raised
             THEN <<>>                               \* except Exception: return pd.DataFrame()
             ELSE [i \in DOMAIN rows |-> rows[i].d]

Columns(df) == UNION {DOMAIN df[i] : i \in DOMAIN df}

\* ------------------------------------------------------------------------
\* GA4RealtimeClient: the five report queries
\* ------------------------------------------------------------------------
SimpleReports == {"active_users_by_page", "events_by_page", "conversions", "overview"}
ReportTypes == SimpleReports \cup {"traffic_sources"}

\* dimensions and metrics of the request each single-request operation builds
RequestDims(o) ==
    CASE o = "active_users_by_page" -> <<unifiedScreenName, country>>
      [] o = "events_by_page"       -> <<unifiedScreenName, eventName>>
      [] o = "conversions"          -> <<eventName>>
      [] o = "overview"             -> <<>>

RequestMetrics(o) ==
    CASE o = "active_users_by_page" -> <<activeUsers, screenPageViews>>
      [] o = "events_by_page"       -> <<eventCount>>
      [] o = "conversions"          -> <<keyEvents>>
      [] o = "overview"             -> <<activeUsers, screenPageViews, keyEvents, eventCount>>

\* what an operation hands to its caller: an exception or a DataFrame (sequence of records)
Returned(df) == [pending |-> FALSE, raised |-> FALSE, df |-> df]
Raised == [pending |-> FALSE, raised |-> TRUE, df |-> <<>>]
Pending == [pending |-> TRUE, raised |-> FALSE, df |-> <<>>]

\* variant: the request failure is not caught
RunReportNoCatch(o, out, ts) ==
    IF out.failed
    THEN Raised
    ELSE Returned(parse_response_to_df(out.response, o, ts))

\* get_realtime_active_users_by_page / _events_by_page / _conversions / _overview:
\* try: response = run_realtime_report(request); return parse(response, o)
\* except Exception: return pd.DataFrame()
RunReport(o, out, ts) ==
    IF out.failed
    THEN Returned(<<>>)
    ELSE Returned(parse_response_to_df(out.response, o, ts))

\* get_realtime_traffic_sources
candidates == << <<sessionSource, sessionMedium, sessionCampaign>>,
                 <<sessionSource, sessionMedium>>,
                 <<deviceCategory>>,
                 <<country>> >>

\* variant: the rename table without its device_category entry
RenameColumnNoDevice(c) ==
    CASE c = session_source   -> source
      [] c = session_medium   -> medium
      [] c = session_campaign -> campaign
      [] c = country          -> source
      [] OTHER                -> c

RenameColumn(c) ==
    CASE c = session_source   -> source
      [] c = session_medium   -> medium
      [] c = session_campaign -> campaign
      [] c = device_category  -> source
      [] c = country          -> source
      [] OTHER                -> c

\* df.rename(columns={...}) on one record
Rename(d) ==
    [c \in {RenameColumn(k) : k \in DOMAIN d} |->
        d[CHOOSE k \in DOMAIN d : RenameColumn(k) = c]]

\* for col in ["source", "medium", "campaign"]: if col not in df.columns: df[col] = "(not set)"
EnsureColumns(d) ==
    [c \in {source, medium, campaign} \ DOMAIN d |-> NotSet] @@ d

keep == {source, medium, campaign, active_users, report_type, extracted_at}

\* body of "for dims in candidates": done = the loop returned df[keep],
\* otherwise the loop goes on to the next candidate
TryCandidate(dims, out, ts) ==
    IF out.failed
    THEN [done |-> FALSE, df |-> <<>>]                         \* except: continue
    ELSE LET df == parse_response_to_df(out.response, "traffic_sources", ts)
             full == [i \in DOMAIN df |-> EnsureColumns(Rename(df[i]))]
         IN  IF Len(df) = 0
             THEN [done |-> FALSE, df |-> <<>>]                \* if df.empty: continue
             ELSE IF ~(keep \subseteq Columns(full))
             THEN [done |-> FALSE, df |-> <<>>]                \* KeyError caught: continue
             ELSE [done |-> TRUE,
                   df |-> [i \in DOMAIN full |-> [c \in keep |-> full[i][c]]]]

\* the whole loop, given the outcome of the request of every candidate that is reached
RECURSIVE Ladder(_, _, _)
Ladder(i, outs, tss) ==
    IF i > Len(candidates) THEN <<>>
    ELSE LET r == TryCandidate(candidates[i], outs[i], tss[i])
         IN  IF r.done THEN r.df ELSE Ladder(i + 1, outs, tss)

get_realtime_traffic_sources(outs, tss) == Returned(Ladder(1, outs, tss))

\* ------------------------------------------------------------------------
\* A client executing report queries one after the other
\* ------------------------------------------------------------------------
\* what a request came back with: an exception, a response without rows, a response
\* with a metric value that is not a number, any other response with rows
OutKind(out) ==
    IF out.failed THEN "failed"
    ELSE IF Len(out.response.rows) = 0 THEN "norows"
    ELSE IF \E i \in DOMAIN out.response.rows :
               \E j \in DOMAIN out.response.rows[i].metric_values :
                  LET v == out.response.rows[i].metric_values[j]
                  IN  v # <<>> /\ ~IsNumber(v)
    THEN "badrows"
    ELSE "rows"

NoOutcome == [failed |-> FALSE, response |-> NoResponse]

NoRun == [task |-> "none", result |-> [raised |-> FALSE, status |-> "none", records |-> 0],
          errs |-> {}]

InitClient ==
    /\ now = 0
    /\ op = "none"
    /\ cand = 0
    /\ calls = <<>>
    /\ kinds = <<>>
    /\ lastOut = NoOutcome
    /\ ret = Pending
    /\ lastRun = NoRun

\* the answers the API can give to the request of each single-request operation and
\* of each traffic-sources candidate
ReportOutcomes ==
    [o \in SimpleReports |-> Outcomes(RequestDims(o), RequestMetrics(o), MaxRows)]

CandidateOutcomes ==
    [i \in DOMAIN candidates |-> Outcomes(candidates[i], <<activeUsers>>, MaxRows)]

\* one of the four single-request operations, from call to return
CallReport(o) ==
    /\ op = "none"
    /\ \E out \in ReportOutcomes[o] :
       \E ts \in Readings(now, Len(out.response.rows)) :
          /\ op' = o
          /\ calls' = <<RequestDims(o)>>
          /\ kinds' = <<OutKind(out)>>
          /\ lastOut' = out
          /\ ret' = RunReport(o, out, ts)
          /\ now' = ClockAfter(now, ts)
    /\ UNCHANGED <<cand, lastRun, dagVars, storeVars, runVars, funVars>>

\* get_realtime_traffic_sources is entered: the loop is about to try the first candidate
BeginTrafficSources ==
    /\ op = "none"
    /\ op' = "traffic_sources"
    /\ cand' = 1
    /\ UNCHANGED <<now, calls, kinds, lastOut, ret, lastRun, dagVars, storeVars, runVars, funVars>>

\* one iteration of the loop: the request for candidates[cand], then either the
\* return of its records, or the next candidate, or (after the last) the empty return
TryNextCandidate ==
    /\ cand \in DOMAIN candidates
    /\ \E out \in CandidateOutcomes[cand] :
       \E ts \in Readings(now, Len(out.response.rows)) :
          LET r == TryCandidate(candidates[cand], out, ts)
          IN  /\ calls' = Append(calls, candidates[cand])
              /\ kinds' = Append(kinds, OutKind(out))
              /\ now' = ClockAfter(now, ts)
              /\ IF r.done
                 THEN ret' = Returned(r.df) /\ cand' = 0 /\ lastOut' = out
                 ELSE IF cand = Len(candidates)
                 THEN ret' = Returned(<<>>) /\ cand' = 0 /\ lastOut' = out
                 ELSE ret' = Pending /\ cand' = cand + 1 /\ UNCHANGED lastOut
    /\ UNCHANGED <<op, lastRun, dagVars, storeVars, runVars, funVars>>

\* the caller is done with what the operation or the callable handed back
Release ==
    /\ op # "none"
    /\ cand = 0
    /\ op' = "none"
    /\ calls' = <<>>
    /\ kinds' = <<>>
    /\ lastOut' = NoOutcome
    /\ ret' = Pending
    /\ lastRun' = NoRun
    /\ UNCHANGED <<now, cand, dagVars, storeVars, runVars, funVars>>

\* ------------------------------------------------------------------------
\* The task graph (ga4_realtime_dag.py)
\* ------------------------------------------------------------------------
Extract == {"extract_active_users", "extract_events_by_page", "extract_conversions",
            "extract_traffic_sources", "extract_overview"}
Dummies == {"start_pipeline", "end_pipeline"}
Tasks == Dummies \cup Extract \cup
         {"check_credentials", "create_aggregated_views", "cleanup_old_data",
          "check_database_status", "generate_summary"}

\* the table / report type each extraction task works on
ReportOf(t) ==
    CASE t = "extract_active_users"    -> "active_users_by_page"
      [] t = "extract_events_by_page"  -> "events_by_page"
      [] t = "extract_conversions"     -> "conversions"
      [] t = "extract_traffic_sources" -> "traffic_sources"
      [] t = "extract_overview"        -> "overview"

\* variant: the extractions chained one after the other instead of fanned out
UpstreamChained(t) ==
    CASE t = "start_pipeline"          -> {}
      [] t = "check_credentials"       -> {"start_pipeline"}
      [] t = "extract_active_users"    -> {"check_credentials"}
      [] t = "extract_events_by_page"  -> {"extract_active_users"}
      [] t = "extract_conversions"     -> {"extract_events_by_page"}
      [] t = "extract_traffic_sources" -> {"extract_conversions"}
      [] t = "extract_overview"        -> {"extract_traffic_sources"}
      [] t = "create_aggregated_views" -> {"extract_active_users", "extract_events_by_page",
                                           "extract_conversions", "extract_traffic_sources",
                                           "extract_overview"}
      [] t = "cleanup_old_data"        -> {"create_aggregated_views"}
      [] t = "check_database_status"   -> {"cleanup_old_data"}
      [] t = "generate_summary"        -> {"check_database_status"}
      [] t = "end_pipeline"            -> {"generate_summary"}

\* variant: the extractions placed directly after start_pipeline
UpstreamUngated(t) ==
    CASE t = "start_pipeline"          -> {}
      [] t = "check_credentials"       -> {"start_pipeline"}
      [] t \in Extract                 -> {"start_pipeline"}
      [] t = "create_aggregated_views" -> Extract
      [] t = "cleanup_old_data"        -> {"create_aggregated_views"}
      [] t = "check_database_status"   -> {"cleanup_old_data"}
      [] t = "generate_summary"        -> {"check_database_status"}
      [] t = "end_pipeline"            -> {"generate_summary"}

\* a >> b : Upstream(b) contains a
Upstream(t) ==
    CASE t = "start_pipeline"          -> {}
      [] t = "check_credentials"       -> {"start_pipeline"}
      [] t \in Extract                 -> {"check_credentials"}
      [] t = "create_aggregated_views" -> Extract
      [] t = "cleanup_old_data"        -> {"create_aggregated_views"}
      [] t = "check_database_status"   -> {"cleanup_old_data"}
      [] t = "generate_summary"        -> {"check_database_status"}
      [] t = "end_pipeline"            -> {"generate_summary"}

\* variant: the view rebuild declared with trigger_rule='all_done'
TriggerRuleViewsAllDone(t) ==
    CASE t = "create_aggregated_views" -> "all_done"
      [] t = "cleanup_old_data"        -> "all_done"
      [] t = "generate_summary"        -> "all_done"
      [] t = "end_pipeline"            -> "all_done"
      [] OTHER                         -> "all_success"

\* variant: the cleanup left with the operator default
TriggerRuleCleanupDefault(t) ==
    CASE t = "create_aggregated_views" -> "none_failed_min_one_success"
      [] t = "generate_summary"        -> "all_done"
      [] t = "end_pipeline"            -> "all_done"
      [] OTHER                         -> "all_success"

\* trigger_rule of each operator; all_success is the operator default
TriggerRule(t) ==
    CASE t = "create_aggregated_views" -> "none_failed_min_one_success"
      [] t = "cleanup_old_data"        -> "all_done"
      [] t = "generate_summary"        -> "all_done"
      [] t = "end_pipeline"            -> "all_done"
      [] OTHER                         -> "all_success"

Finished == {"success", "failed", "upstream_failed", "skipped"}
TaskStates == {"none", "running"} \cup Finished

\* what the scheduler decides for a task instance without state, given the states
\* st of its upstream task instances, under the task's trigger rule
TriggerRuleVerdict(t, st) ==
    LET up == Upstream(t)
        anyFailed == \E u \in up : st[u] \in {"failed", "upstream_failed"}
        allDone == \A u \in up : st[u] \in Finished
        allSkipped == up # {} /\ \A u \in up : st[u] = "skipped"
    IN  CASE TriggerRule(t) = "all_success" ->
                IF anyFailed THEN "upstream_failed"
                ELSE IF \E u \in up : st[u] = "skipped" THEN "skipped"
                ELSE IF \A u \in up : st[u] = "success" THEN "run" ELSE "wait"
          [] TriggerRule(t) = "all_done" ->
                IF allDone THEN "run" ELSE "wait"
          [] TriggerRule(t) = "none_failed_min_one_success" ->
                IF anyFailed THEN "upstream_failed"
                ELSE IF allSkipped THEN "skipped"
                ELSE IF \A u \in up : st[u] \in {"success", "skipped"} THEN "run" ELSE "wait"

\* ---- what the python callables do ----
Return(status, records) == [raised |-> FALSE, status |-> status, records |-> records]
Raise == [raised |-> TRUE, status |-> "none", records |-> 0]
NoResult == [raised |-> FALSE, status |-> "none", records |-> 0]

\* check_credentials: the file test and the client construction both raise on failure
check_credentials(fileExists, clientOk) ==
    IF ~fileExists \/ ~clientOk THEN Raise ELSE Return("success", 0)

\* the requests an extraction task may see answered: an exception, no rows,
\* one well-formed row, one row whose metric values are not numbers
SampleRow(dims, metrics, m) ==
    [dimension_values |-> [i \in DOMAIN dims |-> "desktop"],
     metric_values |-> [i \in DOMAIN metrics |-> m]]

TaskOutcomes(dims, metrics) ==
    {[failed |-> TRUE, response |-> NoResponse]} \cup
    {[failed |-> FALSE,
      response |-> [dimension_headers |-> dims, metric_headers |-> metrics, rows |-> rs]] :
        rs \in {<<>>, <<SampleRow(dims, metrics, <<"1","2">>)>>,
                <<SampleRow(dims, metrics, <<"x">>)>>}}

\* number of requests get_realtime_traffic_sources issues for these outcomes
RECURSIVE LadderCalls(_, _, _)
LadderCalls(i, outs, tss) ==
    IF i > Len(candidates) THEN Len(candidates)
    ELSE IF TryCandidate(candidates[i], outs[i], tss[i]).done THEN i
    ELSE LadderCalls(i + 1, outs, tss)

\* client.get_realtime_<report>() as called by the extraction task of report o;
\* outs[i] answers the i-th request the call issues
Query(o, outs, tss) ==
    IF o = "traffic_sources"
    THEN get_realtime_traffic_sources(outs, tss)
    ELSE RunReport(o, outs[1], tss[1])

\* did one of the requests that the call issued fail
RequestFailed(o, outs, tss) ==
    LET n == IF o = "traffic_sources" THEN LadderCalls(1, outs, tss) ELSE 1
    IN  \E i \in 1..n : outs[i].failed

\* variant: a failed insert is logged and the task returns as if it had stored the frame
extract_data_swallow_insert(o, clientOk, q, handlerOk, insertOk) ==
    IF ~clientOk THEN Raise
    ELSE IF q.raised THEN Raise
    ELSE IF Len(q.df) > 0
         THEN IF ~handlerOk THEN Raise
              ELSE Return("success", Len(q.df))
         ELSE Return("no_data", 0)

\* extract_<report>_data: client construction, query (q is what the query does when it
\* is called), and for a non-empty frame handler construction (which runs init_tables)
\* and insert_dataframe
extract_data(o, clientOk, q, handlerOk, insertOk) ==
    IF ~clientOk THEN Raise
    ELSE IF q.raised THEN Raise
    ELSE IF Len(q.df) > 0
         THEN IF ~handlerOk \/ ~insertOk THEN Raise
              ELSE Return("success", Len(q.df))
         ELSE Return("no_data", 0)

\* the connectivity / auth errors that occur while extract_<report>_data runs
ErrorsMet(clientOk, q, requestFailed, handlerOk, insertOk) ==
    IF ~clientOk THEN {"api_auth"}
    ELSE (IF requestFailed THEN {"api_request"} ELSE {})
         \cup (IF Len(q.df) > 0 /\ ~handlerOk THEN {"db_connect"} ELSE {})
         \cup (IF Len(q.df) > 0 /\ handlerOk /\ ~insertOk THEN {"db_insert"} ELSE {})

\* create_aggregated_views / cleanup_old_data / generate_pipeline_summary: the handler
\* constructor and get_connection() raise; what fails after connecting is caught
\* inside the handler method and the task returns success
maintenance_task(handlerOk, connOk, stmtOk) ==
    IF ~handlerOk \/ ~connOk THEN Raise ELSE Return("success", 0)

\* variant: the callable hands back the table counts alone, without a status
check_database_status_counts(handlerOk, connOk, stmtOk) ==
    IF ~handlerOk \/ ~connOk THEN Raise
    ELSE IF stmtOk THEN Return("none", 0) ELSE Return("error", 0)

\* check_database_status: returns the handler's status object
check_database_status(handlerOk, connOk, stmtOk) ==
    IF ~handlerOk \/ ~connOk THEN Raise
    ELSE IF stmtOk THEN Return("ok", 0) ELSE Return("error", 0)

\* every way client.get_realtime_<report>() can go inside a task (the clock stands
\* at 0 during the task): what it hands back and whether a request failed
QueryRuns ==
    [o \in ReportTypes |->
        LET n == IF o = "traffic_sources" THEN Len(candidates) ELSE 1
            dims(i) == IF o = "traffic_sources" THEN candidates[i] ELSE RequestDims(o)
            metrics == IF o = "traffic_sources" THEN <<activeUsers>> ELSE RequestMetrics(o)
            OutSeqs == IF n = 1
                       THEN {<<a>> : a \in TaskOutcomes(dims(1), metrics)}
                       ELSE {<<a, b, c, d>> : a \in TaskOutcomes(dims(1), metrics),
                                              b \in TaskOutcomes(dims(2), metrics),
                                              c \in TaskOutcomes(dims(3), metrics),
                                              d \in TaskOutcomes(dims(4), metrics)}
            tss(outs) == [i \in 1..n |-> [k \in 1..Len(outs[i].response.rows) |-> 0]]
        IN  {[q |-> Query(o, outs, tss(outs)),
              requestFailed |-> RequestFailed(o, outs, tss(outs))] : outs \in OutSeqs}]

\* every way each python callable can run: what it does and the errors it met
TaskRuns ==
    [t \in Tasks \ Dummies |->
        IF t \in Extract
        THEN {[result |-> extract_data(ReportOf(t), clientOk, run.q, handlerOk, insertOk),
               errs |-> ErrorsMet(clientOk, run.q, run.requestFailed, handlerOk, insertOk)] :
                 clientOk \in BOOLEAN, handlerOk \in BOOLEAN, insertOk \in BOOLEAN,
                 run \in QueryRuns[ReportOf(t)]}
        ELSE IF t = "check_credentials"
        THEN {[result |-> check_credentials(fileExists, clientOk),
               errs |-> IF fileExists /\ clientOk THEN {} ELSE {"api_auth"}] :
                 fileExists \in BOOLEAN, clientOk \in BOOLEAN}
        ELSE IF t = "check_database_status"
        THEN {[result |-> check_database_status(handlerOk, connOk, stmtOk),
               errs |-> IF handlerOk /\ connOk THEN {} ELSE {"db_connect"}] :
                 handlerOk \in BOOLEAN, connOk \in BOOLEAN, stmtOk \in BOOLEAN}
        ELSE {[result |-> maintenance_task(handlerOk, connOk, stmtOk),
               errs |-> IF handlerOk /\ connOk THEN {} ELSE {"db_connect"}] :
                 handlerOk \in BOOLEAN, connOk \in BOOLEAN, stmtOk \in BOOLEAN}]

\* ---- a worker executing the python callable of a task ----
RunTask(t) ==
    /\ op = "none"
    /\ \E run \in TaskRuns[t] :
          lastRun' = [task |-> t, result |-> run.result, errs |-> run.errs]
    /\ op' = t
    /\ UNCHANGED <<now, cand, calls, kinds, lastOut, ret, dagVars, storeVars, runVars, funVars>>

\* ---- the scheduler and the task instances of one run ----
InitDag == state = [t \in Tasks |-> "none"]

\* the scheduler queues a task instance whose trigger rule is met and a worker picks it up
Start(t) ==
    /\ t \notin Dummies
    /\ state[t] = "none"
    /\ TriggerRuleVerdict(t, state) = "run"
    /\ state' = [state EXCEPT ![t] = "running"]
    /\ UNCHANGED <<clientVars, storeVars, runVars, funVars>>

\* a DummyOperator whose trigger rule is met is marked success without being run
RunDummy(t) ==
    /\ t \in Dummies
    /\ state[t] = "none"
    /\ TriggerRuleVerdict(t, state) = "run"
    /\ state' = [state EXCEPT ![t] = "success"]
    /\ UNCHANGED <<clientVars, storeVars, runVars, funVars>>

\* the scheduler gives a task instance the state its trigger rule derives from upstream
SetStateFromUpstream(t) ==
    /\ state[t] = "none"
    /\ TriggerRuleVerdict(t, state) \in {"upstream_failed", "skipped"}
    /\ state' = [state EXCEPT ![t] = TriggerRuleVerdict(t, state)]
    /\ UNCHANGED <<clientVars, storeVars, runVars, funVars>>

\* the python callable ran: a return is success, an exception is failed (no retries)
Finish(t) ==
    /\ t \notin Dummies
    /\ state[t] = "running"
    /\ \E run \in TaskRuns[t] :
          state' = [state EXCEPT ![t] = IF run.result.raised THEN "failed" ELSE "success"]
    /\ UNCHANGED <<clientVars, storeVars, runVars, funVars>>

NextDag ==
    \/ \E t \in Tasks : Start(t)
    \/ \E t \in Tasks : RunDummy(t)
    \/ \E t \in Tasks : SetStateFromUpstream(t)
    \/ \E t \in Tasks : Finish(t)

NextClient ==
    \/ \E o \in SimpleReports : CallReport(o)
    \/ BeginTrafficSources
    \/ TryNextCandidate
    \/ \E t \in Tasks \ Dummies : RunTask(t)
    \/ Release

\* ------------------------------------------------------------------------
\* The relational store behind PostgreSQLHandler (postgres_handler.py)
\* ------------------------------------------------------------------------
\* self.tables_to_manage
tables_to_manage == <<"active_users_by_page", "events_by_page", "conversions",
                      "traffic_sources", "overview">>
ManagedTables == Range(tables_to_manage)
ViewNames == <<"hourly_metrics", "realtime_dashboard">>

\* idx_<t>_extracted_at
IndexName(t) == <<"idx", t, "extracted_at">>

\* the tables a view selects from
ViewSources(v) ==
    IF v = "hourly_metrics"
    THEN {"active_users_by_page", "conversions", "traffic_sources"}
    ELSE {"active_users_by_page"}

EmptyDb == [relations |-> {}, indexes |-> {}, views |-> {},
            rows |-> [t \in ManagedTables |-> <<>>]]

\* ---- statements, as the server executes them inside a transaction ----
Stmt(kind, name) == [kind |-> kind, name |-> name, rows |-> <<>>, before |-> 0]
InsertStmt(t, df) == [kind |-> "insert", name |-> t, rows |-> df, before |-> 0]
\* DELETE FROM t WHERE extracted_at < NOW() - INTERVAL 'h hours'
DeleteStmt(t, tnow, h) == [kind |-> "delete_older", name |-> t, rows |-> <<>>,
                           before |-> tnow - h]

\* the statement is rejected because of what the database holds
StmtFails(d, s) ==
    CASE s.kind = "create_table"               -> s.name \in d.relations
      [] s.kind = "create_table_if_not_exists" -> FALSE
      [] s.kind = "create_index_if_not_exists" -> s.name \notin d.relations
      [] s.kind = "drop_view_if_exists"        -> FALSE
      [] s.kind = "create_view"                -> \/ s.name \in d.views
                                                  \/ ~(ViewSources(s.name) \subseteq d.relations)
      [] OTHER                                 -> s.name \notin d.relations

\* the database after the statement
Apply(d, s) ==
    CASE s.kind \in {"create_table", "create_table_if_not_exists"} ->
            [d EXCEPT !.relations = @ \cup {s.name}]
      [] s.kind = "create_index_if_not_exists" ->
            [d EXCEPT !.indexes = @ \cup {IndexName(s.name)}]
      [] s.kind = "drop_view_if_exists" -> [d EXCEPT !.views = @ \ {s.name}]
      [] s.kind = "create_view"         -> [d EXCEPT !.views = @ \cup {s.name}]
      [] s.kind = "insert"              -> [d EXCEPT !.rows[s.name] = @ \o s.rows]
      [] s.kind = "delete_older" ->
            [d EXCEPT !.rows[s.name] =
                SelectSeq(@, LAMBDA r : ~(r[extracted_at] < s.before))]
      [] OTHER -> d

\* conn = get_connection(): a transaction opens with the first statement
Begin(d) == [db |-> d, aborted |-> FALSE, errors |-> {}]

\* cursor.execute of the i-th statement; fault: the server rejects it for a reason of
\* its own (lock timeout, permission, constraint). After an error the transaction is
\* aborted and every further statement is rejected until it ends.
Execute(tx, i, s, fault) ==
    IF tx.aborted \/ fault \/ StmtFails(tx.db, s)
    THEN [tx EXCEPT !.aborted = TRUE, !.errors = @ \cup {i}]
    ELSE [tx EXCEPT !.db = Apply(@, s)]

\* conn.commit(): the server ends an aborted transaction with a rollback
Commit(d, tx) == IF tx.aborted THEN d ELSE tx.db

\* the statements one after the other; a python exception leaves the sequence at the
\* first error when stopAtError, otherwise each error is caught and the loop goes on
RECURSIVE ExecuteAll(_, _, _, _, _)
ExecuteAll(tx, stmts, faults, i, stopAtError) ==
    IF i > Len(stmts) \/ (stopAtError /\ tx.errors # {}) THEN tx
    ELSE ExecuteAll(Execute(tx, i, stmts[i], i \in faults), stmts, faults, i + 1, stopAtError)

\* what a handler method hands back: the database it leaves, whether it raised,
\* (get_summary_stats) the stats, and the calls it made on a connection of its own
Done(d, raised, value) == [db |-> d, raised |-> raised, value |-> value, conn |-> <<>>]

\* variant: cursor.close() and conn.close() at the end of the try block, not in finally
HeldNoFinally(ending, r) ==
    [r EXCEPT !.conn = <<"connect", "cursor">> \o ending \o
                       (IF "rollback" \in Range(ending) THEN <<>>
                        ELSE <<"cursor.close", "close">>)]

\* conn = self.get_connection(); cursor = conn.cursor(); try: ... finally:
\* cursor.close(); conn.close(). ending: how the try block and its except branch left
\* the transaction. conn.cursor() on the connection just made talks to no server.
Held(ending, r) ==
    [r EXCEPT !.conn = <<"connect", "cursor">> \o ending \o <<"cursor.close", "close">>]
NoStats == [t \in ManagedTables |-> [error |-> FALSE, total_records |-> 0,
                                     latest_update |-> {}, earliest_record |-> {}]]

\* variant: CREATE TABLE without IF NOT EXISTS
init_tables_stmts_plain ==
    [i \in 1..Len(tables_to_manage) |-> Stmt("create_table", tables_to_manage[i])]
    \o [i \in 1..Len(tables_to_manage) |->
            Stmt("create_index_if_not_exists", tables_to_manage[i])]

\* the statements of init_tables: five CREATE TABLE IF NOT EXISTS, then the indexes
init_tables_stmts ==
    [i \in 1..Len(tables_to_manage) |->
        Stmt("create_table_if_not_exists", tables_to_manage[i])]
    \o [i \in 1..Len(tables_to_manage) |->
            Stmt("create_index_if_not_exists", tables_to_manage[i])]

\* init_tables: get_connection() raises outside the try; an error rolls back and is raised
init_tables(d, connOk, faults) ==
    IF ~connOk THEN Done(d, TRUE, NoStats)
    ELSE LET tx == ExecuteAll(Begin(d), init_tables_stmts, faults, 1, TRUE)
         IN  IF tx.errors # {} THEN Held(<<"rollback">>, Done(d, TRUE, NoStats))
             ELSE Held(<<"commit">>, Done(Commit(d, tx), FALSE, NoStats))

\* variant: the rows are sent one by one, each committed on its own
insert_dataframe_row_by_row(d, table_name, df, failAt) ==
    IF Len(df) = 0 THEN Done(d, FALSE, NoStats)
    ELSE IF failAt = 0
    THEN Done(Apply(d, InsertStmt(table_name, df)), FALSE, NoStats)
    ELSE Done(Apply(d, InsertStmt(table_name, SubSeq(df, 1, failAt - 1))), TRUE, NoStats)

\* insert_dataframe: df.to_sql(..., if_exists="append", method="multi") sends the frame
\* as one INSERT inside one transaction of the engine; failAt = k > 0: the server
\* rejects row k of the frame
insert_dataframe(d, table_name, df, failAt) ==
    IF Len(df) = 0 THEN Done(d, FALSE, NoStats)
    ELSE LET tx == Execute(Begin(d), 1, InsertStmt(table_name, df), failAt # 0)
         IN  IF tx.errors # {} THEN Done(d, TRUE, NoStats)
             ELSE Done(Commit(d, tx), FALSE, NoStats)

\* variant: the DELETE also removes the rows that are exactly hours_to_keep old
cleanup_stmts_inclusive(tnow, hours_to_keep) ==
    [i \in 1..Len(tables_to_manage) |->
        DeleteStmt(tables_to_manage[i], tnow + 1, hours_to_keep)]

cleanup_stmts(tnow, hours_to_keep) ==
    [i \in 1..Len(tables_to_manage) |-> DeleteStmt(tables_to_manage[i], tnow, hours_to_keep)]

\* cleanup_old_data: one connection, one DELETE per table with its own try/except, then
\* one commit; get_connection() raises outside the try
cleanup_old_data(d, connOk, faults, tnow, hours_to_keep) ==
    IF ~connOk THEN Done(d, TRUE, NoStats)
    ELSE LET tx == ExecuteAll(Begin(d), cleanup_stmts(tnow, hours_to_keep), faults, 1, FALSE)
         IN  Held(<<"commit">>, Done(Commit(d, tx), FALSE, NoStats))

Max(S) == CHOOSE x \in S : \A y \in S : y <= x
Min(S) == CHOOSE x \in S : \A y \in S : x <= y

\* SELECT COUNT(*), MAX(extracted_at), MIN(extracted_at) FROM table
TableStats(d, table) ==
    LET ts == {d.rows[table][i][extracted_at] : i \in DOMAIN d.rows[table]}
    IN  [error |-> FALSE, total_records |-> Len(d.rows[table]),
         latest_update |-> IF ts = {} THEN {} ELSE {Max(ts)},
         earliest_record |-> IF ts = {} THEN {} ELSE {Min(ts)}]

ErrorMarker == [error |-> TRUE, total_records |-> 0, latest_update |-> {},
                earliest_record |-> {}]

\* get_summary_stats: one connection, one SELECT per table with its own try/except
get_summary_stats(d, connOk, faults) ==
    IF ~connOk THEN Done(d, TRUE, NoStats)
    ELSE LET stmts == [i \in 1..Len(tables_to_manage) |->
                          Stmt("select_stats", tables_to_manage[i])]
             tx == ExecuteAll(Begin(d), stmts, faults, 1, FALSE)
         IN  Held(<<>>, Done(d, FALSE,
                  [t \in ManagedTables |->
                      LET i == CHOOSE k \in DOMAIN tables_to_manage : tables_to_manage[k] = t
                      IN  IF i \in tx.errors THEN ErrorMarker ELSE TableStats(d, t)]))

\* PostgreSQLHandler.check_database_status: the public base tables are listed, then one
\* SELECT COUNT(*) per table; the first error is caught and reported in the status
\* (faults: 1 the listing, 2 a count); get_connection() raises outside the try
handler_check_database_status(d, connOk, faults) ==
    IF ~connOk THEN Done(d, TRUE, NoStats)
    ELSE Held(<<>>, Done(d, FALSE,
                         IF faults = {}
                         THEN [status |-> "ok",
                               tables |-> [t \in d.relations |-> Len(d.rows[t])]]
                         ELSE [status |-> "error", tables |-> [t \in {} |-> 0]]))

\* variant: the connection in autocommit mode, each statement committed as it is executed
create_aggregated_views_autocommit(d, connOk, faults) ==
    IF ~connOk THEN Done(d, TRUE, NoStats)
    ELSE LET stmts == << Stmt("drop_view_if_exists", ViewNames[1]),
                         Stmt("drop_view_if_exists", ViewNames[2]),
                         Stmt("create_view", ViewNames[1]),
                         Stmt("create_view", ViewNames[2]) >>
             tx == ExecuteAll(Begin(d), stmts, faults, 1, TRUE)
         IN  Held(IF tx.errors # {} THEN <<"rollback">> ELSE <<"commit">>,
                  Done(tx.db, FALSE, NoStats))

\* variant: the error is rolled back and raised again
create_aggregated_views_reraise(d, connOk, faults) ==
    IF ~connOk THEN Done(d, TRUE, NoStats)
    ELSE LET stmts == << Stmt("drop_view_if_exists", ViewNames[1]),
                         Stmt("drop_view_if_exists", ViewNames[2]),
                         Stmt("create_view", ViewNames[1]),
                         Stmt("create_view", ViewNames[2]) >>
             tx == ExecuteAll(Begin(d), stmts, faults, 1, TRUE)
         IN  IF tx.errors # {} THEN Held(<<"rollback">>, Done(d, TRUE, NoStats))
             ELSE Held(<<"commit">>, Done(Commit(d, tx), FALSE, NoStats))

\* create_aggregated_views: two DROP VIEW IF EXISTS, two CREATE VIEW, commit; an error
\* rolls back and is logged, not raised; get_connection() raises outside the try
create_aggregated_views(d, connOk, faults) ==
    IF ~connOk THEN Done(d, TRUE, NoStats)
    ELSE LET stmts == << Stmt("drop_view_if_exists", ViewNames[1]),
                         Stmt("drop_view_if_exists", ViewNames[2]),
                         Stmt("create_view", ViewNames[1]),
                         Stmt("create_view", ViewNames[2]) >>
             tx == ExecuteAll(Begin(d), stmts, faults, 1, TRUE)
         IN  IF tx.errors # {} THEN Held(<<"rollback">>, Done(d, FALSE, NoStats))
             ELSE Held(<<"commit">>, Done(Commit(d, tx), FALSE, NoStats))

\* ---- the extraction callables with what they do to the store ----
\* variant: every extraction appends to the overview table
extract_task_one_table(t, clientOk, q, d, connOk, ddlFaults, failAt) ==
    LET h == init_tables(d, connOk, ddlFaults)
        ins == insert_dataframe(h.db, "overview", q.df, failAt)
        stores == clientOk /\ ~q.raised /\ Len(q.df) > 0 /\ ~h.raised
    IN  [result |-> extract_data(ReportOf(t), clientOk, q, ~h.raised, failAt = 0),
         db |-> IF stores THEN ins.db ELSE d,
         conn |-> IF clientOk /\ ~q.raised /\ Len(q.df) > 0 THEN h.conn ELSE <<>>]

\* extract_<report>_data on the store d: for a non-empty frame PostgreSQLHandler() runs
\* init_tables, then insert_dataframe(df, '<report>')
extract_task(t, clientOk, q, d, connOk, ddlFaults, failAt) ==
    LET h == init_tables(d, connOk, ddlFaults)
        ins == insert_dataframe(h.db, ReportOf(t), q.df, failAt)
        stores == clientOk /\ ~q.raised /\ Len(q.df) > 0 /\ ~h.raised
    IN  [result |-> extract_data(ReportOf(t), clientOk, q, ~h.raised, failAt = 0),
         db |-> IF stores THEN ins.db ELSE d,
         conn |-> IF clientOk /\ ~q.raised /\ Len(q.df) > 0 THEN h.conn ELSE <<>>]

\* ---- stores a handler may find, and frames it may be given ----
HoursToKeep == 24       \* db_handler.cleanup_old_data(hours_to_keep=24)
SeedAges == <<0 - 25, 0 - 24, 0 - 1>>   \* extracted_at of stored rows: beyond, at, within 24 h

SeedRow(t, age) == (report_type :> t) @@ (extracted_at :> age)

CompleteDb == init_tables(EmptyDb, TRUE, {}).db

\* the schema in place, every table holding the rows of the ages in S, views built or not
SeededDb(S, withViews) ==
    [CompleteDb EXCEPT
        !.views = IF withViews THEN Range(ViewNames) ELSE {},
        !.rows = [t \in ManagedTables |->
                    LET ages == SelectSeq(SeedAges, LAMBDA a : a \in S)
                    IN  [i \in DOMAIN ages |-> SeedRow(t, ages[i])]]]

StoreDbs ==
    {EmptyDb} \cup {SeededDb(S, v) : S \in SUBSET Range(SeedAges), v \in BOOLEAN}

\* a well-formed frame of n records of report o, as the client hands it over
SampleFrames ==
    [o \in ReportTypes |->
        [n \in 0..MaxRows |->
            LET dims == IF o = "traffic_sources" THEN candidates[1] ELSE RequestDims(o)
                metrics == IF o = "traffic_sources" THEN <<activeUsers>> ELSE RequestMetrics(o)
                out == [failed |-> FALSE,
                        response |-> [dimension_headers |-> dims, metric_headers |-> metrics,
                                      rows |-> [i \in 1..n |->
                                                  SampleRow(dims, metrics, <<"1","2">>)]]]
                k == IF o = "traffic_sources" THEN Len(candidates) ELSE 1
            IN  Query(o, [i \in 1..k |-> out], [i \in 1..k |-> [j \in 1..n |-> 0]]).df]]

\* what the query of each extraction task can hand over
TaskFrames == [t \in Extract |-> {run.q : run \in QueryRuns[ReportOf(t)]}]

NoCall == [op |-> "none", table |-> "none", raised |-> FALSE, value |-> NoStats,
           pre |-> EmptyDb, df |-> <<>>, result |-> NoResult, faults |-> {},
           connOk |-> TRUE, clientOk |-> TRUE, failAt |-> 0, conn |-> <<>>]

InitStore == db = EmptyDb /\ sres = NoCall
InitRun == inDb = [t \in Tasks |-> "no"] /\ viewsFailed = FALSE

\* a handler exists only once its constructor has run init_tables to the end
HandlerExists == ManagedTables \subseteq db.relations

Called(name, table, r, d, df, faults, connOk, failAt) ==
    [op |-> name, table |-> table, raised |-> r.raised, value |-> r.value, pre |-> d,
     df |-> df, result |-> NoResult, faults |-> faults, connOk |-> connOk,
     clientOk |-> TRUE, failAt |-> failAt, conn |-> r.conn]

\* PostgreSQLHandler(): the constructor runs init_tables
InitTables ==
    /\ sres.op = "none"
    /\ \E connOk \in BOOLEAN, faults \in {{}} \cup {{i} : i \in DOMAIN init_tables_stmts} :
          LET r == init_tables(db, connOk, faults)
          IN  /\ db' = r.db
              /\ sres' = Called("init_tables", "none", r, db, <<>>, faults, connOk, 0)
    /\ UNCHANGED <<dagVars, clientVars, runVars, funVars>>

InsertDataframe ==
    /\ sres.op = "none"
    /\ HandlerExists
    /\ \E t \in ManagedTables, n \in 0..MaxRows :
       \E failAt \in 0..n :
          LET df == SampleFrames[t][n]
              r == insert_dataframe(db, t, df, failAt)
          IN  /\ db' = r.db
              /\ sres' = Called("insert_dataframe", t, r, db, df, {}, TRUE, failAt)
    /\ UNCHANGED <<dagVars, clientVars, runVars, funVars>>

CleanupOldData ==
    /\ sres.op = "none"
    /\ HandlerExists
    /\ \E connOk \in BOOLEAN, faults \in SUBSET DOMAIN tables_to_manage :
          LET r == cleanup_old_data(db, connOk, faults, now, HoursToKeep)
          IN  /\ db' = r.db
              /\ sres' = Called("cleanup_old_data", "none", r, db, <<>>, faults, connOk, 0)
    /\ UNCHANGED <<dagVars, clientVars, runVars, funVars>>

GetSummaryStats ==
    /\ sres.op = "none"
    /\ HandlerExists
    /\ \E connOk \in BOOLEAN, faults \in SUBSET DOMAIN tables_to_manage :
          LET r == get_summary_stats(db, connOk, faults)
          IN  /\ db' = r.db
              /\ sres' = Called("get_summary_stats", "none", r, db, <<>>, faults, connOk, 0)
    /\ UNCHANGED <<dagVars, clientVars, runVars, funVars>>

CreateAggregatedViews ==
    /\ sres.op = "none"
    /\ HandlerExists
    /\ \E connOk \in BOOLEAN, faults \in {{}} \cup {{i} : i \in 1..4} :
          LET r == create_aggregated_views(db, connOk, faults)
          IN  /\ db' = r.db
              /\ sres' = Called("create_aggregated_views", "none", r, db, <<>>, faults, connOk, 0)
    /\ UNCHANGED <<dagVars, clientVars, runVars, funVars>>

CheckDatabaseStatus ==
    /\ sres.op = "none"
    /\ HandlerExists
    /\ \E connOk \in BOOLEAN, faults \in {{}, {1}, {2}} :
          LET r == handler_check_database_status(db, connOk, faults)
          IN  /\ db' = r.db
              /\ sres' = Called("check_database_status", "none", r, db, <<>>, faults, connOk, 0)
    /\ UNCHANGED <<dagVars, clientVars, runVars, funVars>>

\* a worker executes the callable of an extraction task against the store
ExtractTask(t) ==
    /\ sres.op = "none"
    /\ \E clientOk \in BOOLEAN, connOk \in BOOLEAN, q \in TaskFrames[t],
          ddlFaults \in {{}, {1}, {Len(init_tables_stmts)}} :
       \E failAt \in 0..Len(q.df) :
          LET r == extract_task(t, clientOk, q, db, connOk, ddlFaults, failAt)
          IN  /\ db' = r.db
              /\ sres' = [op |-> t, table |-> ReportOf(t), raised |-> r.result.raised,
                          value |-> NoStats, pre |-> db,
                          df |-> q.df, result |-> r.result, faults |-> ddlFaults,
                          connOk |-> connOk, clientOk |-> clientOk, failAt |-> failAt,
                          conn |-> r.conn]
    /\ UNCHANGED <<dagVars, clientVars, runVars, funVars>>

NextStore ==
    \/ InitTables
    \/ InsertDataframe
    \/ CleanupOldData
    \/ GetSummaryStats
    \/ CreateAggregatedViews
    \/ CheckDatabaseStatus
    \/ \E t \in Extract : ExtractTask(t)

\* ------------------------------------------------------------------------
\* One pipeline run with the database work of each callable made visible
\* ------------------------------------------------------------------------
\* the callables that construct a PostgreSQLHandler
UsesHandler == Tasks \ (Dummies \cup {"check_credentials"})

\* the handler method each of them calls once the handler is constructed
MethodOf(t) ==
    CASE t \in Extract                 -> "insert_dataframe"
      [] t = "create_aggregated_views" -> "create_aggregated_views"
      [] t = "cleanup_old_data"        -> "cleanup_old_data"
      [] t = "check_database_status"   -> "check_database_status"
      [] t = "generate_summary"        -> "get_summary_stats"

\* the callable ends without having touched the store: check_credentials returns or
\* raises; an extraction raises on the client's construction or returns no_data
EndWithoutStore(t) ==
    /\ t \in Extract \cup {"check_credentials"}
    /\ state[t] = "running"
    /\ inDb[t] = "no"
    /\ \E raised \in BOOLEAN :
          state' = [state EXCEPT ![t] = IF raised THEN "failed" ELSE "success"]
    /\ UNCHANGED <<clientVars, storeVars, runVars, funVars>>

\* db_handler = PostgreSQLHandler(): the constructor enters init_tables
EnterInitTables(t) ==
    /\ t \in UsesHandler
    /\ state[t] = "running"
    /\ inDb[t] = "no"
    /\ inDb' = [inDb EXCEPT ![t] = "init_tables"]
    /\ UNCHANGED <<dagVars, clientVars, storeVars, viewsFailed, funVars>>

\* init_tables is over: it raised, which ends the callable, or the handler method is called
LeaveInitTables(t) ==
    /\ inDb[t] = "init_tables"
    /\ \E handlerOk \in BOOLEAN :
          IF handlerOk
          THEN inDb' = [inDb EXCEPT ![t] = MethodOf(t)] /\ UNCHANGED state
          ELSE inDb' = [inDb EXCEPT ![t] = "no"] /\ state' = [state EXCEPT ![t] = "failed"]
    /\ UNCHANGED <<clientVars, storeVars, viewsFailed, funVars>>

\* the handler method is over and the callable returns or raises; faults: the
\* statement of the method that the server rejects (the tables exist at this point,
\* the constructor having run init_tables)
LeaveMethod(t) ==
    /\ t \in UsesHandler
    /\ inDb[t] = MethodOf(t)
    /\ \E connOk \in BOOLEAN, faults \in {{}} \cup {{i} : i \in 1..4} :
          LET stmtOk == faults = {}
              r == IF t \in Extract
                   THEN IF connOk /\ stmtOk THEN Return("success", 1) ELSE Raise
                   ELSE IF t = "check_database_status"
                   THEN check_database_status(TRUE, connOk, stmtOk)
                   ELSE IF t = "create_aggregated_views"
                   THEN IF create_aggregated_views(CompleteDb, connOk, faults).raised
                        THEN Raise
                        ELSE Return("success", 0)
                   ELSE maintenance_task(TRUE, connOk, stmtOk)
          IN  /\ state' = [state EXCEPT ![t] = IF r.raised THEN "failed" ELSE "success"]
              /\ viewsFailed' = (viewsFailed \/
                                 (t = "create_aggregated_views" /\ connOk /\ ~stmtOk))
    /\ inDb' = [inDb EXCEPT ![t] = "no"]
    /\ UNCHANGED <<clientVars, storeVars, funVars>>

NextRun ==
    \/ \E t \in Tasks : Start(t)
    \/ \E t \in Tasks : RunDummy(t)
    \/ \E t \in Tasks : SetStateFromUpstream(t)
    \/ \E t \in Tasks : EndWithoutStore(t)
    \/ \E t \in Tasks : EnterInitTables(t)
    \/ \E t \in Tasks : LeaveInitTables(t)
    \/ \E t \in Tasks : LeaveMethod(t)

\* ------------------------------------------------------------------------
\* Functions without side effects, applied to arguments drawn from bounded sets
\* ------------------------------------------------------------------------
\* characters a field name is written with: letters of both cases, a digit, dot, underscore
NameChars == <<"A", "Z", "a", "z", "0", ".", "_">>

RECURSIVE NamesOfLen(_)
NamesOfLen(n) ==
    IF n = 0 THEN {<<>>}
    ELSE {Append(s, c) : s \in NamesOfLen(n - 1), c \in Range(NameChars)}

\* the names to_snake is given: every short name, and the API names the client requests
FieldNames ==
    UNION {NamesOfLen(n) : n \in 0..MaxNameLen}
    \cup UNION {Range(RequestDims(o)) \cup Range(RequestMetrics(o)) : o \in SimpleReports}
    \cup UNION {Range(candidates[i]) : i \in DOMAIN candidates}

\* ---- the query behind the hourly_metrics view ----
Null == 0 - 1       \* SQL NULL, kept apart from the metric values, which are not negative

\* SUM(col) over the values of a group: NULLs are skipped, NULL when nothing is left
RECURSIVE SqlSum(_)
SqlSum(xs) ==
    IF xs = <<>> THEN Null
    ELSE LET h == Head(xs)
             rest == SqlSum(Tail(xs))
         IN  IF h = Null THEN rest ELSE IF rest = Null THEN h ELSE h + rest

\* variant: the three SELECTs combined with UNION, which drops duplicate rows
hourly_metrics_union(tables) ==
    LET pages == tables["active_users_by_page"]
        conv == tables["conversions"]
        traffic == tables["traffic_sources"]
        Filled(r, au, pv, ke) ==
            (extracted_at :> r[extracted_at]) @@ (report_type :> r[report_type])
            @@ (active_users :> au) @@ (screen_page_views :> pv) @@ (key_events :> ke)
        all ==
            [i \in DOMAIN pages |->
                Filled(pages[i], pages[i][active_users], pages[i][screen_page_views], 0)]
            \o [i \in DOMAIN conv |->
                Filled(conv[i], 0, 0,
                       IF conv[i][key_events] = Null THEN 0 ELSE conv[i][key_events])]
            \o [i \in DOMAIN traffic |->
                Filled(traffic[i], traffic[i][active_users], 0, 0)]
        x == CHOOSE s \in [1..Cardinality(Range(all)) -> Range(all)] : Range(s) = Range(all)
        Hour(r) == r[extracted_at] - (r[extracted_at] % 60)
        keys == {<<Hour(x[i]), x[i][report_type]>> : i \in DOMAIN x}
        Group(k) == SelectSeq(x, LAMBDA r : <<Hour(r), r[report_type]>> = k)
        Col(g, c) == [i \in DOMAIN g |-> g[i][c]]
        grouped == {[hour |-> k[1], report_type |-> k[2],
                     total_active_users |-> SqlSum(Col(Group(k), active_users)),
                     total_page_views |-> SqlSum(Col(Group(k), screen_page_views)),
                     total_conversions |-> SqlSum(Col(Group(k), key_events))] : k \in keys}
    IN  CHOOSE s \in [1..Cardinality(grouped) -> grouped] :
            /\ Range(s) = grouped
            /\ \A i, j \in DOMAIN s : i < j => s[i].hour >= s[j].hour

\* SELECT DATE_TRUNC('hour', extracted_at) AS hour, report_type, SUM(active_users),
\* SUM(screen_page_views), SUM(key_events) FROM (pages UNION ALL conversions UNION ALL
\* traffic, each with 0 for the metrics it has no column for) x GROUP BY 1,2
\* ORDER BY hour DESC; extracted_at counts minutes
hourly_metrics(tables) ==
    LET pages == tables["active_users_by_page"]
        conv == tables["conversions"]
        traffic == tables["traffic_sources"]
        Filled(r, au, pv, ke) ==
            (extracted_at :> r[extracted_at]) @@ (report_type :> r[report_type])
            @@ (active_users :> au) @@ (screen_page_views :> pv) @@ (key_events :> ke)
        x ==
            [i \in DOMAIN pages |->
                Filled(pages[i], pages[i][active_users], pages[i][screen_page_views], 0)]
            \o [i \in DOMAIN conv |->
                Filled(conv[i], 0, 0,
                       IF conv[i][key_events] = Null THEN 0 ELSE conv[i][key_events])]
            \o [i \in DOMAIN traffic |->
                Filled(traffic[i], traffic[i][active_users], 0, 0)]
        Hour(r) == r[extracted_at] - (r[extracted_at] % 60)
        keys == {<<Hour(x[i]), x[i][report_type]>> : i \in DOMAIN x}
        Group(k) == SelectSeq(x, LAMBDA r : <<Hour(r), r[report_type]>> = k)
        Col(g, c) == [i \in DOMAIN g |-> g[i][c]]
        grouped == {[hour |-> k[1], report_type |-> k[2],
                     total_active_users |-> SqlSum(Col(Group(k), active_users)),
                     total_page_views |-> SqlSum(Col(Group(k), screen_page_views)),
                     total_conversions |-> SqlSum(Col(Group(k), key_events))] : k \in keys}
    IN  CHOOSE s \in [1..Cardinality(grouped) -> grouped] :
            /\ Range(s) = grouped
            /\ \A i, j \in DOMAIN s : i < j => s[i].hour >= s[j].hour

\* what the three tables the view reads may hold: at most MaxViewRows rows in all, each
\* as the extraction of its table writes it (its own report type, its metrics parsed
\* by float()); key_events may be NULL, which the query provides for
ViewTables ==
    LET stamps == {10, 50, 70}
        values == {1, 2}
        Row(t, ts) == (report_type :> t) @@ (extracted_at :> ts)
        rowKinds ==
            {Row("active_users_by_page", ts) @@ (active_users :> a)
                @@ (screen_page_views :> v) : ts \in stamps, a \in values, v \in values}
            \cup {Row("conversions", ts) @@ (key_events :> k) :
                    ts \in stamps, k \in values \cup {Null}}
            \cup {Row("traffic_sources", ts) @@ (active_users :> a) :
                    ts \in stamps, a \in values}
        inserts == UNION {[1..n -> rowKinds] : n \in 0..MaxViewRows}
    IN  {[t \in ViewSources("hourly_metrics") |->
            SelectSeq(ins, LAMBDA r : r[report_type] = t)] : ins \in inserts}

NoInput == [fn |-> "none", arg |-> <<>>]
InitFun == given = NoInput /\ got = <<>>

Inputs == [fn : {"to_snake"}, arg : FieldNames] \cup [fn : {"hourly_metrics"}, arg : ViewTables]

\* to_snake on the name given, then on what it returned
ApplyToSnake ==
    /\ given.fn = "to_snake"
    /\ Len(got) < 2
    /\ got' = Append(got, to_snake(IF got = <<>> THEN given.arg ELSE got[Len(got)]))
    /\ UNCHANGED <<given, dagVars, clientVars, storeVars, runVars>>

\* SELECT * FROM hourly_metrics on the tables given
SelectHourlyMetrics ==
    /\ given.fn = "hourly_metrics"
    /\ got = <<>>
    /\ got' = <<hourly_metrics(given.arg)>>
    /\ UNCHANGED <<given, dagVars, clientVars, storeVars, runVars>>

NextFun == ApplyToSnake \/ SelectHourlyMetrics

Init == InitDag /\ InitClient /\ InitStore /\ InitRun /\ InitFun

\* one pipeline run under the scheduler
Next == NextDag
Spec == Init /\ [][Next]_vars
\* the scheduler keeps scheduling and every python callable returns or raises
FairSpec == Spec /\ WF_vars(Next)

\* a worker process that executes report queries and task callables one at a time
SpecClient == Init /\ [][NextClient]_vars

\* one handler method, or one extraction callable, executed on a store as it may be found
InitOnStore == InitDag /\ InitClient /\ InitRun /\ InitFun /\ db \in StoreDbs /\ sres = NoCall
SpecStore == InitOnStore /\ [][NextStore]_vars

\* one pipeline run, the callables interleaving at their database work
SpecRun == Init /\ [][NextRun]_vars

\* one function applied to one argument
InitOnInputs ==
    InitDag /\ InitClient /\ InitStore /\ InitRun /\ given \in Inputs /\ got = <<>>
SpecFun == InitOnInputs /\ [][NextFun]_vars

\* ------------------------------------------------------------------------
\* Properties of the task graph
\* ------------------------------------------------------------------------
\* the python callable of task t was executed (to its return or its exception)
Ran(t) == state[t] \in {"success", "failed"}

ViewsTask == "create_aggregated_views"

\* C1 as stated: in every run the view rebuild runs whenever at least one of the five
\* extraction tasks succeeded, whether or not the others failed. Read at the end of a
\* run: once every task instance has a final state, an extraction that succeeded
\* implies that the view rebuild was executed.
C1_Original ==
    ((\A t \in Tasks : state[t] \in Finished) /\ (\E t \in Extract : state[t] = "success"))
        => Ran(ViewsTask)

\* C1 amended: the view rebuild is executed only when all five extraction tasks
\* succeeded (at least one success and no failure), and then it always is; as soon as
\* one extraction task failed or was not run, it is marked upstream_failed and is
\* never executed.
C1_ViewsRunIffNoExtractionFailed ==
    /\ [](state[ViewsTask] \in {"running", "success", "failed"}
            => \A t \in Extract : state[t] = "success")
    /\ []((\E t \in Extract : state[t] \in {"failed", "upstream_failed"})
            => state[ViewsTask] \in {"none", "upstream_failed"})
    /\ [](state[ViewsTask] = "upstream_failed"
            => \E t \in Extract : state[t] \in {"failed", "upstream_failed"})
    /\ ((\A t \in Extract : state[t] = "success") ~> Ran(ViewsTask))

\* all five extractions succeeded and the view rebuild was executed
C1_Witness ==
    /\ \A t \in Extract : state[t] = "success"
    /\ Ran(ViewsTask)

\* C2: in every run, whatever the outcomes of the credential check, the extractions, the
\* view rebuild and the status check, the cleanup task eventually runs, the summary
\* task eventually runs and the end node is eventually reached.
C2_CleanupSummaryEndAlwaysRun ==
    /\ <>Ran("cleanup_old_data")
    /\ <>Ran("generate_summary")
    /\ <>(state["end_pipeline"] = "success")

\* the run ended although the credential check failed, nothing was extracted, the views
\* were not rebuilt, the cleanup failed and the status check was not run
C2_Witness ==
    /\ state["check_credentials"] = "failed"
    /\ \A t \in Extract : state[t] = "upstream_failed"
    /\ state[ViewsTask] = "upstream_failed"
    /\ state["cleanup_old_data"] = "failed"
    /\ state["check_database_status"] = "upstream_failed"
    /\ Ran("generate_summary")
    /\ state["end_pipeline"] = "success"

\* C3: once the credential check has succeeded, no extraction task is ever kept from
\* running by the scheduler (marked upstream_failed or skipped), and each of the five is
\* eventually executed to its own outcome, whatever the outcomes of the other four and
\* however the five are interleaved.
C3_ExtractionsIndependent ==
    /\ [](state["check_credentials"] = "success"
            => \A t \in Extract : state[t] \notin {"upstream_failed", "skipped"})
    /\ \A t \in Extract : (state["check_credentials"] = "success") ~> Ran(t)

\* one extraction failed and the other four ran to success
C3_Witness ==
    /\ state["extract_active_users"] = "failed"
    /\ \A t \in Extract \ {"extract_active_users"} : state[t] = "success"

\* ------------------------------------------------------------------------
\* Properties of the task callables and of the report client
\* ------------------------------------------------------------------------

\* the columns of the table each single-request report is stored in (init_tables)
TableDims(o) ==
    CASE o = "active_users_by_page" -> <<unified_screen_name, country>>
      [] o = "events_by_page"       -> <<unified_screen_name, event_name>>
      [] o = "conversions"          -> <<event_name>>
      [] o = "overview"             -> <<>>

TableMetrics(o) ==
    CASE o = "active_users_by_page" -> <<active_users, screen_page_views>>
      [] o = "events_by_page"       -> <<event_count>>
      [] o = "conversions"          -> <<key_events>>
      [] o = "overview"             -> <<active_users, screen_page_views, key_events, event_count>>

ExtractionRan == lastRun.task \in Extract
FatalErrors == {"api_auth", "db_connect", "db_insert"}

\* C4 as stated: every API or database connectivity/auth error that occurs while an
\* extraction task runs makes the task raise instead of returning a result object.
C4_Original ==
    (ExtractionRan /\ lastRun.errs # {}) => lastRun.result.raised

\* C4 amended: a credential/auth error while the API client is constructed, and a
\* database error while the storage handler is constructed or the frame is inserted,
\* make the extraction task raise instead of returning a result object, and nothing else
\* makes it raise; a failed API report request does not: the client catches it and the
\* task returns a result object (no_data for the four single-request reports; no_data,
\* or success from a later candidate, for traffic sources).
C4_FatalErrorsRaise ==
    ExtractionRan =>
        /\ (lastRun.errs \cap FatalErrors # {}) = lastRun.result.raised
        /\ lastRun.result.raised => lastRun.result.status = "none"
        /\ (lastRun.errs = {"api_request"})
              => /\ lastRun.result.status \in {"no_data", "success"}
                 /\ lastRun.task # "extract_traffic_sources"
                       => lastRun.result.status = "no_data" /\ lastRun.result.records = 0

\* an extraction met a failed request and then a failed insert, and raised
C4_Witness ==
    /\ lastRun.task = "extract_traffic_sources"
    /\ lastRun.errs = {"api_request", "db_insert"}
    /\ lastRun.result.raised

QueryReturned == op \in ReportTypes /\ ~ret.pending
SomeRequestFailed == \E i \in DOMAIN kinds : kinds[i] = "failed"

\* C5 as stated: none of the five report queries propagates a request failure, and
\* whenever one of its API calls failed the query returns an empty result set.
C5_Original ==
    (QueryReturned /\ SomeRequestFailed) => (~ret.raised /\ ret.df = <<>>)

\* C5 amended: none of the five report queries propagates a request failure; each of
\* the four single-request queries returns an empty result set when its API call
\* failed; the traffic-sources query goes on to the next candidate after a failed call
\* and returns an empty result set when the call of the last candidate failed (so that
\* no candidate yielded records), in particular when all four calls failed.
C5_FailuresNotPropagated ==
    /\ ~ret.raised
    /\ (QueryReturned /\ op \in SimpleReports /\ SomeRequestFailed) => ret.df = <<>>
    /\ (QueryReturned /\ op = "traffic_sources" /\ kinds[Len(kinds)] = "failed")
          => (Len(kinds) = 4 /\ ret.df = <<>>)
    /\ (op = "traffic_sources" /\ ret.pending /\ cand # 0)
          => cand = Len(kinds) + 1

\* traffic sources: the first request failed, the second yielded the returned records
C5_Witness ==
    /\ QueryReturned
    /\ op = "traffic_sources"
    /\ kinds = <<"failed", "rows">>
    /\ ~ret.raised
    /\ Len(ret.df) > 0

LadderOrder == << <<sessionSource, sessionMedium, sessionCampaign>>,
                  <<sessionSource, sessionMedium>>,
                  <<deviceCategory>>,
                  <<country>> >>

\* the value the normaliser stores for a dimension value
Stored(v) == IF v = "" THEN "(not set)" ELSE v

\* the returned records are the rows of the most recent response, one for one
FromLastResponse ==
    /\ ~lastOut.failed
    /\ Len(ret.df) = Len(lastOut.response.rows)
    /\ \A i \in DOMAIN ret.df :
          /\ ret.df[i][source] = Stored(lastOut.response.rows[i].dimension_values[1])
          /\ ret.df[i][active_users] =
                (IF lastOut.response.rows[i].metric_values[1] = <<>> THEN 0 ELSE 12)

\* the traffic-sources loop, with passOn the kinds of answer after which it moves on
LadderRule(passOn) ==
    op = "traffic_sources" =>
        /\ Len(calls) <= 4
        /\ \A i \in DOMAIN calls : calls[i] = LadderOrder[i]
        /\ \A i \in 1..(Len(kinds) - 1) : kinds[i] \in passOn
        /\ (ret.pending /\ cand # 0) => \A i \in DOMAIN kinds : kinds[i] \in passOn
        /\ (~ret.pending /\ ret.df # <<>>)
              => (kinds[Len(kinds)] \notin passOn /\ FromLastResponse)
        /\ ~ret.pending
              => ((ret.df = <<>>) = (Len(kinds) = 4 /\ \A i \in 1..4 : kinds[i] \in passOn))

\* C6 as stated: the candidates are queried in the order {source, medium, campaign},
\* {source, medium}, {device category}, {country}; the next one is queried only after
\* the current one failed or returned no rows; nothing is queried after the first
\* candidate that returned rows; the records returned are those of that candidate
\* alone; the result is empty exactly when all four failed or returned no rows.
C6_Original == LadderRule({"failed", "norows"})

\* what the loop does: it also passes over a candidate whose response has rows with a
\* metric value that is not a number, since the normaliser hands back an empty frame
LadderAsCoded == LadderRule({"failed", "norows", "badrows"})

\* the first candidate returned rows, one metric value of which is not a number: the
\* second candidate was queried all the same and the records returned are its own
C6_Failing ==
    /\ op = "traffic_sources"
    /\ ~ret.pending
    /\ kinds = <<"badrows", "rows">>
    /\ calls = <<LadderOrder[1], LadderOrder[2]>>
    /\ Len(ret.df) > 0

\* C7: every record returned by the traffic-sources query has source, medium and
\* campaign populated: those the winning candidate supplied carry its (normalised)
\* value, each one it did not supply is "(not set)"; when the device-category (or the
\* country) candidate wins, source is its value and medium and campaign are "(not set)".
C7_TrafficColumnsPopulated ==
    (op = "traffic_sources" /\ ~ret.pending /\ ret.df # <<>>) =>
        /\ Len(ret.df) = Len(lastOut.response.rows)
        /\ \A i \in DOMAIN ret.df :
              LET r == ret.df[i]
                  dv == lastOut.response.rows[i].dimension_values
                  w == Len(calls)
              IN  /\ DOMAIN r = {source, medium, campaign, active_users,
                                 report_type, extracted_at}
                  /\ r[source] # "" /\ r[medium] # "" /\ r[campaign] # ""
                  /\ r[source] = Stored(dv[1])
                  /\ r[medium] = (IF w <= 2 THEN Stored(dv[2]) ELSE "(not set)")
                  /\ r[campaign] = (IF w = 1 THEN Stored(dv[3]) ELSE "(not set)")

\* only the device-category candidate succeeded
C7_Witness ==
    /\ op = "traffic_sources"
    /\ ~ret.pending
    /\ Len(calls) = 3
    /\ Len(ret.df) > 0
    /\ ret.df[1][source] = "desktop"
    /\ ret.df[1][medium] = "(not set)"
    /\ ret.df[1][campaign] = "(not set)"

\* a single-request query handed back what the normaliser made of the response
Normalised == op \in SimpleReports /\ ~ret.pending /\ ~lastOut.failed

\* every record carries a report_type and an extracted_at
Tagged ==
    \A i \in DOMAIN ret.df :
        /\ {report_type, extracted_at} \subseteq DOMAIN ret.df[i]
        /\ ret.df[i][report_type] = op
        /\ ret.df[i][extracted_at] \in 0..now

\* C8 as stated: for any response with at least one row, normalisation returns exactly
\* as many records as the response has rows, each with report_type and extracted_at.
C8_Original ==
    (Normalised /\ Len(lastOut.response.rows) > 0)
        => (Len(ret.df) = Len(lastOut.response.rows) /\ Tagged)

\* what the normaliser does: a record per row, tagged, when every metric value is
\* empty or a number; no record at all when some metric value is not a number
RecordsAsCoded ==
    Normalised =>
        /\ OutKind(lastOut) = "rows" => (Len(ret.df) = Len(lastOut.response.rows) /\ Tagged)
        /\ OutKind(lastOut) = "badrows" => ret.df = <<>>
        /\ OutKind(lastOut) = "norows" => ret.df = <<>>

\* a response of two rows, one metric value of which is not a number, gave no record
C8_Failing ==
    /\ Normalised
    /\ op = "overview"
    /\ Len(lastOut.response.rows) = 2
    /\ OutKind(lastOut) = "badrows"
    /\ ret.df = <<>>

\* the fields of row i of the response as the normaliser is to store them, a metric
\* value outside numbers being stored as unparsed
FieldsStored(i, unparsed) ==
    LET row == lastOut.response.rows[i]
        r == ret.df[i]
    IN  /\ \A j \in DOMAIN row.dimension_values :
              r[TableDims(op)[j]] = Stored(row.dimension_values[j])
        /\ \A j \in DOMAIN row.metric_values :
              r[TableMetrics(op)[j]] =
                 (IF row.metric_values[j] = <<"1","2">> THEN 12 ELSE unparsed)

\* C9 as stated: an empty dimension value is stored as "(not set)", a missing or
\* unparseable metric value as 0.0, for every row and field, the other rows and fields
\* being normalised as usual.
C9_Original ==
    (Normalised /\ Len(lastOut.response.rows) > 0) =>
        /\ Len(ret.df) = Len(lastOut.response.rows)
        /\ \A i \in DOMAIN ret.df : FieldsStored(i, 0)

\* what the normaliser does: an empty dimension value is stored as "(not set)" and an
\* empty metric value as 0.0, the other rows and fields as usual; a metric value that
\* is not a number is not stored as 0.0, the whole response yields an empty frame
FieldsAsCoded ==
    Normalised =>
        /\ OutKind(lastOut) = "rows"
              => /\ Len(ret.df) = Len(lastOut.response.rows)
                 /\ \A i \in DOMAIN ret.df : FieldsStored(i, 0)
        /\ OutKind(lastOut) = "badrows" => ret.df = <<>>

\* the first of two rows has a metric value that is not a number: no record has it as
\* 0.0, and the second row, which lacks nothing, was not normalised either
C9_Failing ==
    /\ Normalised
    /\ op = "conversions"
    /\ Len(lastOut.response.rows) = 2
    /\ lastOut.response.rows[1].metric_values[1] = <<"x">>
    /\ lastOut.response.rows[2].metric_values[1] = <<"1","2">>
    /\ lastOut.response.rows[2].dimension_values[1] = "desktop"
    /\ ret.df = <<>>

\* C10: all records normalised from one response carry the same extracted_at, even if
\* the clock advances while the rows are processed.
C10_OneTimestampPerResponse ==
    QueryReturned =>
        \A i, j \in DOMAIN ret.df : ret.df[i][extracted_at] = ret.df[j][extracted_at]

\* the clock advanced between the two rows of a response: the records differ in extracted_at
C10_Failing ==
    /\ QueryReturned
    /\ op = "conversions"
    /\ Len(ret.df) = 2
    /\ ret.df[1][extracted_at] = 0
    /\ ret.df[2][extracted_at] = 1

\* ------------------------------------------------------------------------
\* Properties of the storage handler
\* ------------------------------------------------------------------------
Inserted == sres.op = "insert_dataframe"

\* an extraction callable got as far as calling insert_dataframe
ExtractionInserted ==
    /\ sres.op \in Extract
    /\ sres.clientOk /\ Len(sres.df) > 0 /\ sres.connOk /\ sres.faults = {}

\* C11: insert_dataframe on a non-empty frame is all-or-nothing: if the insert fails,
\* every table holds exactly the rows it held before and the failure is raised, which
\* makes the extraction task raise (fail); if it succeeds the table holds the old rows
\* followed by the frame; on an empty frame nothing changes and nothing is raised.
C11_AppendAllOrNothing ==
    /\ (Inserted /\ Len(sres.df) > 0) =>
          /\ sres.raised = (sres.failAt # 0)
          /\ sres.raised => db = sres.pre
          /\ ~sres.raised =>
                /\ db.rows[sres.table] = sres.pre.rows[sres.table] \o sres.df
                /\ \A t \in ManagedTables \ {sres.table} : db.rows[t] = sres.pre.rows[t]
    /\ (Inserted /\ Len(sres.df) = 0) => (~sres.raised /\ db = sres.pre)
    /\ (ExtractionInserted /\ sres.failAt # 0) =>
          (sres.result.raised /\ db.rows = sres.pre.rows)

\* the server rejected the second row of a frame of two: raised, and no row was added
\* to a table that held rows before
C11_Witness ==
    /\ Inserted
    /\ Len(sres.df) = 2
    /\ sres.failAt = 2
    /\ sres.raised
    /\ Len(sres.pre.rows[sres.table]) > 0
    /\ db.rows = sres.pre.rows

Purged == sres.op = "cleanup_old_data" /\ ~sres.raised

\* the rows of table t before the call that are not older than HoursToKeep hours
RowsToKeep(t) ==
    SelectSeq(sres.pre.rows[t], LAMBDA r : r[extracted_at] >= now - HoursToKeep)

HoldsOldRow(d, t) ==
    \E i \in DOMAIN d.rows[t] : d.rows[t][i][extracted_at] < now - HoursToKeep

\* C12: in cleanup_old_data, a DELETE that fails on one managed table does not block
\* the others: on every table whose DELETE did not fail the old rows are gone once the
\* call has returned (the delete was attempted, took effect and was committed).
C12_FailureDoesNotBlockOthers ==
    Purged =>
        \A i \in DOMAIN tables_to_manage :
            i \notin sres.faults => db.rows[tables_to_manage[i]] = RowsToKeep(tables_to_manage[i])

\* the DELETE on the third table failed: the first two tables, whose DELETE had
\* succeeded, and the last two still hold their old rows after the call
C12_Failing ==
    /\ Purged
    /\ sres.faults = {3}
    /\ \A t \in ManagedTables : HoldsOldRow(sres.pre, t)
    /\ \A t \in ManagedTables : HoldsOldRow(db, t)
    /\ db = sres.pre

StatusChecked == lastRun.task = "check_database_status"

\* C14: the status check never raises: every failure it meets, the failure to connect
\* to the store included, comes back as an error-status object.
C14_StatusCheckNeverRaises ==
    StatusChecked =>
        /\ ~lastRun.result.raised
        /\ lastRun.errs # {} => lastRun.result.status = "error"

\* the store could not be connected to, and the status check raised
C14_Failing ==
    /\ StatusChecked
    /\ lastRun.errs = {"db_connect"}
    /\ lastRun.result.raised

Summarised == sres.op = "get_summary_stats" /\ ~sres.raised

\* C15: in get_summary_stats a query that fails on one managed table yields an error
\* marker for that table only: every other table, those queried after it included, has
\* its row count and its latest and earliest extracted_at, and the call does not fail.
C15_ErrorMarkerForFailingTableOnly ==
    (sres.op = "get_summary_stats" /\ sres.connOk) =>
        /\ ~sres.raised
        /\ \A i \in DOMAIN tables_to_manage :
              sres.value[tables_to_manage[i]] =
                 (IF i \in sres.faults THEN ErrorMarker
                  ELSE TableStats(sres.pre, tables_to_manage[i]))

\* the query on the second table failed: the first table has its stats, the second the
\* error marker, and so have the three tables queried after it, which hold rows
C15_Failing ==
    /\ Summarised
    /\ sres.faults = {2}
    /\ ~sres.value[tables_to_manage[1]].error
    /\ \A i \in 2..5 : /\ sres.value[tables_to_manage[i]].error
                       /\ Len(db.rows[tables_to_manage[i]]) > 0

CallableRan == lastRun.task \in Tasks \ Dummies

\* C16 as stated: every task callable either raises or returns a result whose status is
\* one of success, no_data, error.
C16_Original ==
    CallableRan =>
        (lastRun.result.raised \/ lastRun.result.status \in {"success", "no_data", "error"})

\* C16 amended: every task callable either raises or returns a structured result with a
\* status: success for the credential check, the view rebuild, the cleanup and the
\* summary; success or no_data for the five extractions; ok or error for the status
\* check (its success status is ok, not success, and it is the only one to return error).
C16_StatusVocabulary ==
    CallableRan =>
        \/ lastRun.result.raised
        \/ CASE lastRun.task \in Extract ->
                   lastRun.result.status \in {"success", "no_data"}
             [] lastRun.task = "check_database_status" ->
                   lastRun.result.status \in {"ok", "error"}
             [] OTHER -> lastRun.result.status = "success"

\* the status check returned the status ok
C16_Witness ==
    /\ StatusChecked
    /\ ~lastRun.result.raised
    /\ lastRun.result.status = "ok"

\* ------------------------------------------------------------------------
\* Properties of the database work within a pipeline run
\* ------------------------------------------------------------------------
\* the task instances that are executing schema or view DDL
InDDL == {t \in Tasks : inDb[t] \in {"init_tables", "create_aggregated_views"}}

\* C17: schema/view DDL is single-writer: in no reachable state of a run are two
\* executions of init_tables and/or create_aggregated_views in progress together, the
\* init_tables of a handler's constructor included.
C17_SingleWriterDDL == Cardinality(InDDL) <= 1

\* two extraction callables, both holding a non-empty frame, are inside the init_tables
\* of their handlers' constructors at the same time
C17_Failing ==
    /\ inDb["extract_active_users"] = "init_tables"
    /\ inDb["extract_overview"] = "init_tables"
    /\ state["extract_active_users"] = "running"
    /\ state["extract_overview"] = "running"

RunOver == \A t \in Tasks : state[t] \in Finished

SchemaEnsured == sres.op = "init_tables"

\* the five tables and the five indexes on extracted_at, nothing twice
SchemaInPlace(d) ==
    /\ d.relations = ManagedTables
    /\ d.indexes = {IndexName(t) : t \in ManagedTables}
    /\ Cardinality(d.relations) = 5
    /\ Cardinality(d.indexes) = 5

\* C19: init_tables called on a store where it has already completed raises no error
\* (it raises only if the store cannot be reached or rejects a statement for a reason of
\* its own) and leaves the tables and indexes exactly as they were (five tables, one
\* extracted_at index each), the views and all rows unchanged; called on an empty store
\* it puts that schema in place.
C19_EnsureSchemaIdempotent ==
    /\ (SchemaEnsured /\ SchemaInPlace(sres.pre)) =>
          /\ sres.raised = (~sres.connOk \/ sres.faults # {})
          /\ db = sres.pre
          /\ SchemaInPlace(db)
    /\ (SchemaEnsured /\ sres.pre = EmptyDb /\ ~sres.raised) => SchemaInPlace(db)

\* the second call, on a store with tables, views and rows: no error, nothing changed
C19_Witness ==
    /\ SchemaEnsured
    /\ SchemaInPlace(sres.pre)
    /\ sres.pre.views # {}
    /\ \A t \in ManagedTables : Len(sres.pre.rows[t]) = 3
    /\ sres.connOk /\ sres.faults = {}
    /\ ~sres.raised
    /\ db = sres.pre

Extracted == sres.op \in Extract

\* C20: an extraction callable whose query hands back an empty frame returns no_data
\* with 0 records, does not raise, and leaves the store, its own table included, as it
\* was; it returns success only when the frame was not empty and its own table holds the
\* rows it held before followed by exactly the records of the frame, the other tables
\* being left alone.
C20_NoDataAndSuccess ==
    /\ (Extracted /\ sres.clientOk /\ Len(sres.df) = 0) =>
          /\ sres.result = Return("no_data", 0)
          /\ db = sres.pre
    /\ (Extracted /\ sres.result.status = "success") =>
          /\ ~sres.result.raised
          /\ Len(sres.df) > 0
          /\ sres.result.records = Len(sres.df)
          /\ db.rows[sres.table] = sres.pre.rows[sres.table] \o sres.df
          /\ \A t \in ManagedTables \ {sres.table} : db.rows[t] = sres.pre.rows[t]
    /\ (Extracted /\ sres.result.status = "no_data") => Len(sres.df) = 0

\* the conversions query handed back nothing: no_data, and the table keeps its three rows
C20_Witness ==
    /\ sres.op = "extract_conversions"
    /\ Len(sres.df) = 0
    /\ sres.result = Return("no_data", 0)
    /\ Len(sres.pre.rows["conversions"]) = 3
    /\ db = sres.pre


\* ------------------------------------------------------------------------
\* Properties of the field-name canonicalization
\* ------------------------------------------------------------------------
\* C21: to_snake is idempotent on every field name over letters, digits, dots and
\* underscores (applying it to its own result returns that result), and it maps
\* unifiedScreenName, eventName and screenPageViews to unified_screen_name,
\* event_name and screen_page_views.
C21_CanonicalizationIdempotentExact ==
    given.fn = "to_snake" =>
        /\ Len(got) = 2 => got[2] = got[1]
        /\ Len(got) >= 1 =>
              /\ given.arg = unifiedScreenName => got[1] = unified_screen_name
              /\ given.arg = eventName => got[1] = event_name
              /\ given.arg = screenPageViews => got[1] = screen_page_views

\* a camel-case API name canonicalized, and its canonical form canonicalized again
C21_Witness ==
    /\ given.fn = "to_snake"
    /\ given.arg = screenPageViews
    /\ Len(got) = 2
    /\ got[1] # given.arg


\* ------------------------------------------------------------------------
\* Properties of the hourly_metrics view
\* ------------------------------------------------------------------------
HourOf(r) == r[extracted_at] - (r[extracted_at] % 60)

\* the pairs (hour, report_type) occurring among the rows of the three tables
SourcePairs ==
    UNION {{<<HourOf(given.arg[t][i]), given.arg[t][i][report_type]>> :
                i \in DOMAIN given.arg[t]} : t \in DOMAIN given.arg}

RECURSIVE Total(_)
Total(xs) == IF xs = <<>> THEN 0 ELSE Head(xs) + Total(Tail(xs))

\* metric c added up over the rows of table t in the group of pair k, a missing value
\* counting zero
TableTotal(t, c, k) ==
    LET g == SelectSeq(given.arg[t], LAMBDA r : <<HourOf(r), r[report_type]>> = k)
    IN  Total([i \in DOMAIN g |-> IF g[i][c] = Null THEN 0 ELSE g[i][c]])

\* C22: hourly_metrics holds exactly one row per (hour, report_type) pair occurring
\* among the rows of the page-activity, conversions and traffic-sources tables; its
\* active users are the sum over the group's page-activity and traffic-sources rows,
\* its page views the sum over the group's page-activity rows, its key events the sum
\* over the group's conversions rows (a table without the metric contributes zero);
\* rows of different report types in the same hour stay in different rows.
C22_HourlyMetricsGroupsAndSums ==
    (given.fn = "hourly_metrics" /\ got # <<>>) =>
        LET view == got[1]
        IN  /\ {<<view[i].hour, view[i].report_type>> : i \in DOMAIN view} = SourcePairs
            /\ Len(view) = Cardinality(SourcePairs)
            /\ \A i \in DOMAIN view :
                  LET k == <<view[i].hour, view[i].report_type>>
                  IN  /\ view[i].total_active_users =
                            TableTotal("active_users_by_page", active_users, k)
                            + TableTotal("traffic_sources", active_users, k)
                      /\ view[i].total_page_views =
                            TableTotal("active_users_by_page", screen_page_views, k)
                      /\ view[i].total_conversions =
                            TableTotal("conversions", key_events, k)

\* two page-activity rows with the same values in one hour: one row in the view, which
\* holds the sum over both and zero key events
C22_Witness ==
    /\ given.fn = "hourly_metrics"
    /\ got # <<>>
    /\ Len(given.arg["active_users_by_page"]) = 2
    /\ given.arg["active_users_by_page"][1] = given.arg["active_users_by_page"][2]
    /\ Len(got[1]) = 1
    /\ got[1][1].total_active_users = 4
    /\ got[1][1].total_conversions = 0


\* ------------------------------------------------------------------------
\* Properties of the credential gate
\* ------------------------------------------------------------------------
\* the callable of task t has been started in this run
Started(t) == state[t] \in {"running", "success", "failed"}

\* C23: an extraction task is started in a run only if the credential check of that
\* run has succeeded; when the credential check has failed, no extraction task is or
\* was running and no task is in insert_dataframe, the one method that appends rows.
C23_CredentialGate ==
    /\ \A t \in Extract :
          (Started(t) \/ inDb[t] # "no") => state["check_credentials"] = "success"
    /\ state["check_credentials"] = "failed" =>
          /\ \A t \in Extract : ~Started(t)
          /\ \A t \in Tasks : inDb[t] # "insert_dataframe"

\* the credential check failed, every extraction ended upstream_failed without having
\* run, and the run went on to its cleanup
C23_Witness ==
    /\ state["check_credentials"] = "failed"
    /\ \A t \in Extract : state[t] = "upstream_failed"
    /\ state["cleanup_old_data"] = "success"


\* ------------------------------------------------------------------------
\* Properties of the view rebuild
\* ------------------------------------------------------------------------
ViewsRebuilt == sres.op = "create_aggregated_views"

\* C24: create_aggregated_views is atomic on the two views: when no statement is
\* rejected it returns with both hourly_metrics and realtime_dashboard in place; when a
\* statement is rejected after the connection was made it returns with the views
\* exactly as they were before the call (so does a call that cannot connect, which
\* raises); a view that existed before the call is never missing after it, and tables,
\* indexes and rows are left as they were.
C24_ViewRebuildAtomic ==
    ViewsRebuilt =>
        /\ (sres.connOk /\ sres.faults = {}) =>
              (db.views = Range(ViewNames) /\ ~sres.raised)
        /\ (sres.connOk /\ sres.faults # {}) =>
              (db.views = sres.pre.views /\ ~sres.raised)
        /\ ~sres.connOk => (db.views = sres.pre.views /\ sres.raised)
        /\ sres.pre.views \subseteq db.views
        /\ db.relations = sres.pre.relations
        /\ db.indexes = sres.pre.indexes
        /\ db.rows = sres.pre.rows

\* the first CREATE VIEW was rejected after both views had been dropped: the call
\* returned and both views are still there
C24_Witness ==
    /\ ViewsRebuilt
    /\ sres.connOk
    /\ sres.faults = {3}
    /\ sres.pre.views = Range(ViewNames)
    /\ ~sres.raised
    /\ db.views = Range(ViewNames)


\* ------------------------------------------------------------------------
\* Properties of the direct connections
\* ------------------------------------------------------------------------
DirectOps == {"init_tables", "check_database_status", "get_summary_stats",
              "cleanup_old_data", "create_aggregated_views"}

\* the connections a sequence of calls has made and not closed
OpenAfter(cs) ==
    Cardinality({i \in DOMAIN cs : cs[i] = "connect"})
    - Cardinality({i \in DOMAIN cs : cs[i] = "close"})

\* C25: init_tables, check_database_status, get_summary_stats, cleanup_old_data and
\* create_aggregated_views have closed the connection they made by the time they
\* return or raise, whether their statements succeeded, were rejected or were rolled
\* back: the last call on the connection is its close; a method that could not connect
\* made no connection; no operation on the store leaves a connection open.
C25_ConnectionsClosed ==
    /\ sres.op \in DirectOps =>
          IF sres.connOk
          THEN /\ sres.conn # <<>>
               /\ sres.conn[1] = "connect"
               /\ sres.conn[Len(sres.conn)] = "close"
               /\ OpenAfter(sres.conn) = 0
          ELSE sres.conn = <<>> /\ sres.raised
    /\ OpenAfter(sres.conn) = 0

\* init_tables had a statement rejected: it rolled back, closed the connection, raised
C25_Witness ==
    /\ sres.op = "init_tables"
    /\ sres.connOk
    /\ sres.faults # {}
    /\ sres.raised
    /\ "rollback" \in Range(sres.conn)
    /\ sres.conn[Len(sres.conn)] = "close"

====
